---------------------------- MODULE Spec2Model ----------------------------
(***************************************************************************)
(* A model of src/Jeopardy-test.py: the Question bank, the QuizGame        *)
(* bookkeeping (score, used set, shuffle, reset), the interactive loop of  *)
(* QuizGame.start_game, and the Player leaderboard file.                   *)
(*                                                                         *)
(* Python strings are modelled as sequences of one-character strings so    *)
(* that str.strip, str.lower, str.title and int() are computed, not        *)
(* assumed.  A Question object is identified by an integer (its id()).     *)
(***************************************************************************)
EXTENDS Integers, Sequences, FiniteSets, TLC

(***************************************************************************)
(* Bounds.  The shipped bank has 5 categories of 5 questions; the model    *)
(* keeps the first NumCategories categories and the first                  *)
(* QuestionsPerCategory questions of each.                                 *)
(***************************************************************************)
NumCategories == 1
QuestionsPerCategory == 2
MaxCalls == 3
MaxEntries == 2

BankCategories == 5
BankQuestionsPerCategory == 5
TopN == 10

(***************************************************************************)
(* Strings                                                                 *)
(***************************************************************************)
UpperLetters ==
  << "A", "B", "C", "D", "E", "F", "G", "H", "I", "J", "K", "L", "M",
     "N", "O", "P", "Q", "R", "S", "T", "U", "V", "W", "X", "Y", "Z" >>

LowerLetters ==
  << "a", "b", "c", "d", "e", "f", "g", "h", "i", "j", "k", "l", "m",
     "n", "o", "p", "q", "r", "s", "t", "u", "v", "w", "x", "y", "z" >>

Digits == << "0", "1", "2", "3", "4", "5", "6", "7", "8", "9" >>

Whitespace == { " ", "\t", "\n" }

IndexIn(c, alphabet) ==
  IF \E i \in 1..Len(alphabet) : alphabet[i] = c
  THEN CHOOSE i \in 1..Len(alphabet) : alphabet[i] = c
  ELSE 0

\* the case mappings of the ASCII letters
ToLower == [c \in { UpperLetters[i] : i \in 1..26 } |-> LowerLetters[IndexIn(c, UpperLetters)]]

ToUpper == [c \in { LowerLetters[i] : i \in 1..26 } |-> UpperLetters[IndexIn(c, LowerLetters)]]

UpperSet == DOMAIN ToLower

LowerSet == DOMAIN ToUpper

lower_char(c) == IF c \in UpperSet THEN ToLower[c] ELSE c

upper_char(c) == IF c \in LowerSet THEN ToUpper[c] ELSE c

IsCased(c) == c \in UpperSet \/ c \in LowerSet

\* str.lower()
lower(s) == [i \in 1..Len(s) |-> lower_char(s[i])]

\* str.upper()
upper(s) == [i \in 1..Len(s) |-> upper_char(s[i])]

\* str.swapcase()
swapcase(s) ==
  [i \in 1..Len(s) |-> IF s[i] \in UpperSet THEN lower_char(s[i]) ELSE upper_char(s[i])]

\* str.title(): a cased character is upper-cased when it follows an uncased
\* character (or starts the string) and lower-cased otherwise.
title(s) ==
  [i \in 1..Len(s) |->
     IF i = 1 \/ ~IsCased(s[i - 1]) THEN upper_char(s[i]) ELSE lower_char(s[i])]

\* str.strip(): drop leading and trailing whitespace.
strip(s) ==
  IF \A i \in 1..Len(s) : s[i] \in Whitespace THEN << >>
  ELSE LET lo == CHOOSE i \in 1..Len(s) :
                   s[i] \notin Whitespace /\ \A j \in 1..(i - 1) : s[j] \in Whitespace
           hi == CHOOSE i \in 1..Len(s) :
                   s[i] \notin Whitespace /\ \A j \in (i + 1)..Len(s) : s[j] \in Whitespace
       IN  SubSeq(s, lo, hi)

RECURSIVE DecimalValue(_)
DecimalValue(s) ==
  IF s = << >> THEN 0
  ELSE 10 * DecimalValue(SubSeq(s, 1, Len(s) - 1)) + (IndexIn(s[Len(s)], Digits) - 1)

Unsigned(s) == IF s # << >> /\ s[1] \in { "+", "-" } THEN Tail(s) ELSE s

\* int(str) raises ValueError unless the stripped text is an optionally
\* signed, non-empty run of decimal digits.
IsIntLiteral(s) ==
  LET body == Unsigned(strip(s))
  IN  body # << >> /\ \A i \in 1..Len(body) : IndexIn(body[i], Digits) # 0

\* int(str) for text that IsIntLiteral accepts.
int(s) ==
  LET t == strip(s)
  IN  IF t[1] = "-" THEN 0 - DecimalValue(Unsigned(t)) ELSE DecimalValue(Unsigned(t))

(***************************************************************************)
(* The question bank built by QuizGame.__initialize_questions              *)
(***************************************************************************)
CategoryNames ==
  << <<"S", "c", "i", "e", "n", "c", "e">>,
     <<"H", "i", "s", "t", "o", "r", "y">>,
     <<"G", "e", "o", "g", "r", "a", "p", "h", "y">>,
     <<"L", "i", "t", "e", "r", "a", "t", "u", "r", "e">>,
     <<"S", "p", "o", "r", "t", "s">> >>

BankPoints ==
  << 100, 200, 300, 400, 500,
     100, 200, 300, 400, 500,
     100, 200, 300, 400, 500,
     100, 200, 300, 400, 500,
     100, 200, 300, 400, 500 >>

BankCorrect ==
  << <<"A", "u">>,
     <<"2", "0", "6">>,
     <<"N", "i", "t", "r", "o", "g", "e", "n">>,
     <<"D", "i", "a", "m", "o", "n", "d">>,
     <<"2", "9", "9", ",", "7", "9", "2", ",", "4", "5", "8">>,
     <<"1", "9", "4", "5">>,
     <<"G", "e", "o", "r", "g", "e", " ", "W", "a", "s", "h", "i", "n", "g", "t", "o", "n">>,
     <<"L", "i", "g", "h", "t", "h", "o", "u", "s", "e", " ", "o", "f", " ", "A", "l", "e", "x", "a", "n", "d", "r", "i", "a">>,
     <<"1", "9", "8", "9">>,
     <<"R", "o", "m", "a", "n", " ", "E", "m", "p", "i", "r", "e">>,
     <<"C", "a", "n", "b", "e", "r", "r", "a">>,
     <<"N", "i", "l", "e">>,
     <<"7">>,
     <<"C", "a", "n", "a", "d", "a">>,
     <<"M", "a", "r", "i", "a", "n", "a", " ", "T", "r", "e", "n", "c", "h">>,
     <<"W", "i", "l", "l", "i", "a", "m", " ", "S", "h", "a", "k", "e", "s", "p", "e", "a", "r", "e">>,
     <<"M", "o", "b", "y", " ", "D", "i", "c", "k">>,
     <<"J", "a", "n", "e", " ", "A", "u", "s", "t", "e", "n">>,
     <<"O", "t", "h", "e", "l", "l", "o">>,
     <<"J", "o", "h", "n", " ", "M", "i", "l", "t", "o", "n">>,
     <<"5">>,
     <<"B", "a", "s", "k", "e", "t", "b", "a", "l", "l">>,
     <<"E", "v", "e", "r", "y", " ", "4", " ", "y", "e", "a", "r", "s">>,
     <<"3", "0", "0">>,
     <<"B", "r", "a", "z", "i", "l">> >>

\* The identity of the k-th Question object created for category number c.
QId(c, k) == (c - 1) * BankQuestionsPerCategory + k

\* "no Question": the None that display_question returns.
None == 0

\* the categories the model keeps, in the order the bank dictionary lists them
KeptCategories == SubSeq(CategoryNames, 1, NumCategories)

Categories == { KeptCategories[i] : i \in 1..Len(KeptCategories) }

CategoryNumber(cat) == CHOOSE c \in 1..BankCategories : CategoryNames[c] = cat

Questions ==
  { QId(CategoryNumber(cat), k) : cat \in Categories, k \in 1..QuestionsPerCategory }

\* Question.get_points
get_points(q) == BankPoints[q]

\* Question.get_correct_answer
get_correct_answer(q) == BankCorrect[q]

\* self.__question_bank as __initialize_questions leaves it
InitialBank ==
  [cat \in Categories |->
     [k \in 1..QuestionsPerCategory |-> QId(CategoryNumber(cat), k)]]

Range(s) == { s[i] : i \in 1..Len(s) }

RECURSIVE SumPoints(_)
SumPoints(qs) ==
  IF qs = {} THEN 0
  ELSE LET q == CHOOSE x \in qs : TRUE
       IN  get_points(q) + SumPoints(qs \ {q})


(***************************************************************************)
(* State                                                                   *)
(***************************************************************************)
VARIABLES
  question_bank,   \* QuizGame.__question_bank: category name -> list of Question ids
  score,           \* QuizGame.__score
  used_questions,  \* QuizGame.__used_questions: set of id(question)
  player,          \* QuizGame.__player: "None" or "Player"
  player_name,     \* Player.__player_name
  pc,              \* position of start_game: the prompt it is blocked on
  category,        \* local `category` of __handle_question_selection
  question,        \* local `question` of __handle_question_selection
  inp,             \* what the input() call of the last step delivered
  message,         \* the status line printed by the last step
  endCause,        \* which break statement left the loop of start_game
  credited,        \* per question, how often check_answer judged it correct since the last reset
  call,            \* the last method called directly on the QuizGame or Player object
  ret,             \* the value that call returned
  calls,           \* number of direct calls made so far
  file,            \* highscores.json on disk
  save_calls,      \* the scores Player.save_score was invoked with, in order
  displayed,       \* whether Player.display_highscores has run
  raised           \* the exception the last Player call raised, "" if none

gameVars == << question_bank, score, used_questions, credited >>

sessionVars == << pc, category, question, inp, message, endCause >>

playerVars == << player, player_name >>

apiVars == << call, ret, calls >>

boardVars == << file, save_calls, displayed, raised >>

vars == << question_bank, score, used_questions, player, player_name, pc,
           category, question, inp, message, endCause, credited, call, ret,
           calls, file, save_calls, displayed, raised >>

(***************************************************************************)
(* QuizGame queries                                                        *)
(***************************************************************************)
\* sorted(list of int): ascending; place i holds the value with fewer than i
\* smaller elements and at least i elements not larger
sorted(s) ==
  [i \in 1..Len(s) |->
     CHOOSE v \in Range(s) :
       /\ Cardinality({ j \in 1..Len(s) : s[j] < v }) < i
       /\ i <= Cardinality({ j \in 1..Len(s) : s[j] <= v })]

RECURSIVE TotalLen(_, _)
TotalLen(bank, cats) ==
  IF cats = {} THEN 0
  ELSE LET c == CHOOSE x \in cats : TRUE
       IN  Len(bank[c]) + TotalLen(bank, cats \ {c})

\* display_question without the `id(question) not in self.__used_questions` test
display_question_ignores_used(cat, points) ==
  IF cat \notin DOMAIN question_bank THEN None
  ELSE LET qs   == question_bank[cat]
           hits == { i \in 1..Len(qs) : get_points(qs[i]) = points }
       IN  IF hits = {} THEN None
           ELSE qs[CHOOSE i \in hits : \A j \in hits : i <= j]

\* QuizGame.display_question: the first question of the category, in bank
\* order, with the given points whose id is not in the used set; None for an
\* unknown category or when no such question exists.
display_question(cat, points) ==
  IF cat \notin DOMAIN question_bank THEN None
  ELSE LET qs   == question_bank[cat]
           hits == { i \in 1..Len(qs) :
                       get_points(qs[i]) = points /\ qs[i] \notin used_questions }
       IN  IF hits = {} THEN None
           ELSE qs[CHOOSE i \in hits : \A j \in hits : i <= j]

\* is_game_complete comparing against len(self.__question_bank), the number of categories
is_game_complete_counts_categories ==
  Cardinality(used_questions) >= Cardinality(DOMAIN question_bank)

\* QuizGame.is_game_complete
is_game_complete ==
  Cardinality(used_questions) >= TotalLen(question_bank, DOMAIN question_bank)

\* QuizGame.get_available_categories
get_available_categories ==
  SelectSeq(KeptCategories,
            LAMBDA cat : \E i \in 1..Len(question_bank[cat]) :
                            question_bank[cat][i] \notin used_questions)

\* lines 304-308: the points of the questions of a category of `bank` whose
\* id is not in `used`, sorted
available_points(bank, used, cat) ==
  IF cat \notin DOMAIN bank THEN << >>
  ELSE LET qs     == bank[cat]
           unused == SelectSeq(qs, LAMBDA q : q \notin used)
       IN  sorted([i \in 1..Len(unused) |-> get_points(unused[i])])

\* QuizGame.get_available_points
get_available_points(cat) == available_points(question_bank, used_questions, cat)

\* the comparison of check_answer without the .lower() calls
is_correct_case_sensitive(q, user_answer) ==
  strip(user_answer) = strip(get_correct_answer(q))

\* the comparison of QuizGame.check_answer
is_correct(q, user_answer) ==
  lower(strip(user_answer)) = lower(strip(get_correct_answer(q)))

\* every order random.shuffle can leave the lists of the bank in
Orderings(s) ==
  { p \in [1..Len(s) -> Range(s)] : Range(p) = Range(s) }

RECURSIVE Reordered(_, _)
Reordered(bank, cats) ==
  IF cats = {} THEN { bank }
  ELSE LET c == CHOOSE x \in cats : TRUE
       IN  UNION { Reordered([bank EXCEPT ![c] = p], cats \ {c}) : p \in Orderings(bank[c]) }

ShuffledBanks == Reordered(question_bank, DOMAIN question_bank)

NoCall == [op |-> "", cat |-> << >>, points |-> 0, q |-> None, answer |-> << >>]

NoReturn == [kind |-> "None", q |-> None, ok |-> FALSE, list |-> << >>]

NoInput == [kind |-> "none", text |-> << >>]

Line(s) == [kind |-> "line", text |-> s]

NoCredit == [q \in Questions |-> 0]

MissingFile == [kind |-> "absent", entries |-> << >>]

Anonymous == <<"A", "n", "o", "n", "y", "m", "o", "u", "s">>


(***************************************************************************)
(* QuizGame operations, as changes of the game state                       *)
(***************************************************************************)
\* display_question with line 240 outside the `if`: a miss marks the last question looked at
DisplayQuestion_marks_on_miss(cat, points) ==
  LET q == display_question(cat, points)
  IN  /\ used_questions' =
           IF q # None THEN used_questions \cup {q}
           ELSE IF cat \in DOMAIN question_bank
                THEN used_questions \cup { question_bank[cat][Len(question_bank[cat])] }
                ELSE used_questions
      /\ UNCHANGED << question_bank, score, credited >>

\* display_question without line 240: the question returned is not marked
DisplayQuestion_never_marks(cat, points) ==
  UNCHANGED << question_bank, score, used_questions, credited >>

\* display_question marks the question it returns as used (line 240).
DisplayQuestion(cat, points) ==
  LET q == display_question(cat, points)
  IN  /\ used_questions' = IF q # None THEN used_questions \cup {q} ELSE used_questions
      /\ UNCHANGED << question_bank, score, credited >>

\* check_answer with the score update outside the `if is_correct`
check_answer_always_adds(q, user_answer) ==
  /\ score' = score + get_points(q)
  /\ credited' = IF is_correct(q, user_answer)
                 THEN [credited EXCEPT ![q] = @ + 1]
                 ELSE credited
  /\ UNCHANGED << question_bank, used_questions >>

\* check_answer that takes the points away for a wrong answer
check_answer_penalty(q, user_answer) ==
  /\ score' = IF is_correct(q, user_answer) THEN score + get_points(q) ELSE score - get_points(q)
  /\ credited' = IF is_correct(q, user_answer)
                 THEN [credited EXCEPT ![q] = @ + 1]
                 ELSE credited
  /\ UNCHANGED << question_bank, used_questions >>

\* check_answer adds the points of the question when the answer is correct.
check_answer(q, user_answer) ==
  /\ score' = IF is_correct(q, user_answer) THEN score + get_points(q) ELSE score
  /\ credited' = IF is_correct(q, user_answer)
                 THEN [credited EXCEPT ![q] = @ + 1]
                 ELSE credited
  /\ UNCHANGED << question_bank, used_questions >>

\* shuffle_question_bank that also forgets which questions were used
shuffle_question_bank_clears_used ==
  /\ question_bank' \in ShuffledBanks
  /\ used_questions' = {}
  /\ UNCHANGED << score, credited >>

\* lines 273-277: random.shuffle on the list of every category
shuffle_question_bank ==
  /\ question_bank' \in ShuffledBanks
  /\ UNCHANGED << score, used_questions, credited >>

\* reset_game without self.__used_questions.clear()
reset_game_keeps_used ==
  /\ score' = 0
  /\ credited' = NoCredit
  /\ UNCHANGED << question_bank, used_questions >>

\* reset_game without self.__score = 0
reset_game_keeps_score ==
  /\ used_questions' = {}
  /\ credited' = NoCredit
  /\ UNCHANGED << question_bank, score >>

\* lines 279-283
reset_game ==
  /\ score' = 0
  /\ used_questions' = {}
  /\ credited' = NoCredit
  /\ UNCHANGED question_bank

(***************************************************************************)
(* What the player may type                                                *)
(***************************************************************************)
Pad(s) == << " " >> \o s \o << " " >>

RECURSIVE str(_)
\* str(int) for a natural number
str(n) == IF n < 10 THEN << Digits[n + 1] >> ELSE str(n \div 10) \o << Digits[(n % 10) + 1] >>

NameInputs == { << " ", "A", "n", "n", " " >> }

ChoiceInputs == { << "1" >>, << " ", "2", " " >>, << "3" >>, << "4" >>, << "5" >> }

ConfirmInputs == { << " ", "Y", " " >>, << "n" >> }

CategoryInputs ==
  { Pad(swapcase(c)) : c \in Categories } \cup { << "S", "c", "i", "e", "n", "s", "e" >> }

PointsInputs ==
  { Pad(str(get_points(q))) : q \in Questions } \cup { str(999), << "a", "b", "c" >> }

\* answers typed at the prompt of the session
AnswerInputs(q) ==
  IF q = None THEN {}
  ELSE { Pad(swapcase(get_correct_answer(q))), << "A", "g" >> }

\* answers passed to check_answer directly
AnswerArgs(q) ==
  { get_correct_answer(q), lower(get_correct_answer(q)),
    Pad(upper(get_correct_answer(q))), << "A", "g" >>, << >> }

LoopPrompts == { "menu", "confirm", "category", "points", "answer" }

(***************************************************************************)
(* QuizGame.start_game, one step per input() call                          *)
(***************************************************************************)
Init ==
  /\ question_bank = InitialBank
  /\ score = 0
  /\ used_questions = {}
  /\ player = "None"
  /\ player_name = << >>
  /\ pc = "name"
  /\ category = << >>
  /\ question = None
  /\ inp = NoInput
  /\ message = "Welcome to JEOPARDY!"
  /\ endCause = ""
  /\ credited = NoCredit
  /\ call = NoCall
  /\ ret = NoReturn
  /\ calls = 0
  /\ file = MissingFile
  /\ save_calls = << >>
  /\ displayed = FALSE
  /\ raised = ""

\* lines 324-328: the name prompt; a blank name becomes "Anonymous".
EnterName(text) ==
  /\ pc = "name"
  /\ inp' = Line(text)
  /\ player' = "Player"
  /\ player_name' = IF strip(text) = << >> THEN Anonymous ELSE strip(text)
  /\ pc' = "loop"
  /\ UNCHANGED << category, question, message, endCause >>
  /\ UNCHANGED << gameVars, apiVars, boardVars >>

\* line 324 is outside the try block: an exception raised by the name prompt
\* leaves start_game before the loop is entered.
NamePromptRaises(kind) ==
  /\ pc = "name"
  /\ inp' = [kind |-> kind, text |-> << >>]
  /\ pc' = "aborted"
  /\ message' = IF kind = "eof" THEN "An unexpected error occurred" ELSE "Traceback"
  /\ UNCHANGED << category, question, endCause >>
  /\ UNCHANGED << gameVars, playerVars, apiVars, boardVars >>

\* lines 331-345: the top of the loop, up to the menu prompt.
\* the loop without the is_game_complete test of lines 337-339
LoopTop_ignores_completion ==
  /\ pc = "loop"
  /\ inp' = NoInput
  /\ pc' = "menu"
  /\ endCause' = endCause
  /\ message' = "Options:"
  /\ UNCHANGED << category, question >>
  /\ UNCHANGED << gameVars, playerVars, apiVars, boardVars >>

\* lines 331-339: the top of the loop, display_categories and the completion test
LoopTop ==
  /\ pc = "loop"
  /\ inp' = NoInput
  /\ IF is_game_complete
     THEN /\ pc' = "ended"
          /\ endCause' = "complete"
          /\ message' = "Congratulations! You've completed all questions!"
     ELSE /\ pc' = "menu"
          /\ endCause' = endCause
          /\ message' = "Options:"
  /\ UNCHANGED << category, question >>
  /\ UNCHANGED << gameVars, playerVars, apiVars, boardVars >>

\* choice '1', lines 350-351 and 373-380
MenuSelect(text) ==
  /\ pc = "menu"
  /\ strip(text) = << "1" >>
  /\ inp' = Line(text)
  /\ IF get_available_categories = << >>
     THEN /\ message' = "No more questions available!"
          /\ pc' = "loop"
     ELSE /\ message' = "Available categories"
          /\ pc' = "category"
  /\ UNCHANGED << category, question, endCause >>
  /\ UNCHANGED << gameVars, playerVars, apiVars, boardVars >>

\* choice '2', lines 352-353
MenuShuffle(text) ==
  /\ pc = "menu"
  /\ strip(text) = << "2" >>
  /\ inp' = Line(text)
  /\ shuffle_question_bank
  /\ message' = "Question bank shuffled!"
  /\ pc' = "loop"
  /\ UNCHANGED << category, question, endCause >>
  /\ UNCHANGED << playerVars, apiVars, boardVars >>

\* choice '3', lines 354-355: ask for confirmation
MenuReset(text) ==
  /\ pc = "menu"
  /\ strip(text) = << "3" >>
  /\ inp' = Line(text)
  /\ pc' = "confirm"
  /\ UNCHANGED << category, question, message, endCause >>
  /\ UNCHANGED << gameVars, playerVars, apiVars, boardVars >>

\* choice '4', lines 358-361
MenuQuit(text) ==
  /\ pc = "menu"
  /\ strip(text) = << "4" >>
  /\ inp' = Line(text)
  /\ pc' = "ended"
  /\ endCause' = "quit"
  /\ message' = "Thanks for playing"
  /\ UNCHANGED << category, question >>
  /\ UNCHANGED << gameVars, playerVars, apiVars, boardVars >>

\* the invalid-choice branch followed by a break
MenuInvalid_breaks(text) ==
  /\ pc = "menu"
  /\ strip(text) \notin { << "1" >>, << "2" >>, << "3" >>, << "4" >> }
  /\ inp' = Line(text)
  /\ message' = "Invalid choice. Please enter 1-4."
  /\ pc' = "ended"
  /\ UNCHANGED << category, question, endCause >>
  /\ UNCHANGED << gameVars, playerVars, apiVars, boardVars >>

\* any other choice, lines 362-363
MenuInvalid(text) ==
  /\ pc = "menu"
  /\ strip(text) \notin { << "1" >>, << "2" >>, << "3" >>, << "4" >> }
  /\ inp' = Line(text)
  /\ message' = "Invalid choice. Please enter 1-4."
  /\ pc' = "loop"
  /\ UNCHANGED << category, question, endCause >>
  /\ UNCHANGED << gameVars, playerVars, apiVars, boardVars >>

\* choice '3' with reset_game called whatever the confirmation says
Confirm_always_resets(text) ==
  /\ pc = "confirm"
  /\ inp' = Line(text)
  /\ reset_game
  /\ message' = "Game reset! Score: 0, All questions available again."
  /\ pc' = "loop"
  /\ UNCHANGED << category, question, endCause >>
  /\ UNCHANGED << playerVars, apiVars, boardVars >>

\* lines 355-357: the reset confirmation
Confirm(text) ==
  /\ pc = "confirm"
  /\ inp' = Line(text)
  /\ IF lower(strip(text)) = << "y" >>
     THEN /\ reset_game
          /\ message' = "Game reset! Score: 0, All questions available again."
     ELSE /\ UNCHANGED gameVars
          /\ message' = message
  /\ pc' = "loop"
  /\ UNCHANGED << category, question, endCause >>
  /\ UNCHANGED << playerVars, apiVars, boardVars >>

\* lines 380-391: the category prompt
EnterCategory(text) ==
  /\ pc = "category"
  /\ inp' = Line(text)
  /\ LET cat == title(strip(text))
     IN  IF cat \notin Range(get_available_categories)
         THEN /\ message' = "Invalid category or no questions remaining in that category!"
              /\ pc' = "loop"
              /\ category' = << >>
         ELSE IF get_available_points(cat) = << >>
         THEN /\ message' = "No questions available in this category!"
              /\ pc' = "loop"
              /\ category' = << >>
         ELSE /\ message' = "Available points"
              /\ pc' = "points"
              /\ category' = cat
  /\ UNCHANGED << question, endCause >>
  /\ UNCHANGED << gameVars, playerVars, apiVars, boardVars >>

\* lines 393-406: the points prompt; a match shows the question and marks it used
EnterPoints(text) ==
  /\ pc = "points"
  /\ inp' = Line(text)
  /\ IF ~IsIntLiteral(strip(text))
     THEN /\ message' = "Please enter a valid number for points!"
          /\ pc' = "loop"
          /\ question' = None
          /\ UNCHANGED gameVars
     ELSE IF int(strip(text)) \notin Range(get_available_points(category))
     THEN /\ message' = "Invalid point value!"
          /\ pc' = "loop"
          /\ question' = None
          /\ UNCHANGED gameVars
     ELSE /\ DisplayQuestion(category, int(strip(text)))
          /\ question' = display_question(category, int(strip(text)))
          /\ IF question' # None
             THEN /\ message' = "Q:"
                  /\ pc' = "answer"
             ELSE /\ message' = "No available question found"
                  /\ pc' = "loop"
  /\ category' = IF pc' = "answer" THEN category ELSE << >>
  /\ UNCHANGED endCause
  /\ UNCHANGED << playerVars, apiVars, boardVars >>

\* lines 402-403: the answer prompt
EnterAnswer(text) ==
  /\ pc = "answer"
  /\ inp' = Line(text)
  /\ check_answer(question, strip(text))
  /\ message' = IF is_correct(question, strip(text)) THEN "Correct!" ELSE "Incorrect."
  /\ pc' = "loop"
  /\ category' = << >>
  /\ question' = None
  /\ UNCHANGED endCause
  /\ UNCHANGED << playerVars, apiVars, boardVars >>

\* lines 365-367: KeyboardInterrupt raised by an input() call inside the try
PromptInterrupt ==
  /\ pc \in LoopPrompts
  /\ inp' = [kind |-> "interrupt", text |-> << >>]
  /\ message' = "Game interrupted. Goodbye!"
  /\ pc' = "ended"
  /\ endCause' = "interrupt"
  /\ category' = << >>
  /\ question' = None
  /\ UNCHANGED << gameVars, playerVars, apiVars, boardVars >>

\* `except Exception` followed by a break
PromptError_breaks ==
  /\ pc \in LoopPrompts
  /\ inp' = [kind |-> "eof", text |-> << >>]
  /\ message' = "An error occurred"
  /\ pc' = "ended"
  /\ category' = << >>
  /\ question' = None
  /\ UNCHANGED endCause
  /\ UNCHANGED << gameVars, playerVars, apiVars, boardVars >>

\* lines 368-369: any other exception raised by an input() call (EOFError)
PromptError ==
  /\ pc \in LoopPrompts
  /\ inp' = [kind |-> "eof", text |-> << >>]
  /\ message' = "An error occurred"
  /\ pc' = "loop"
  /\ category' = << >>
  /\ question' = None
  /\ UNCHANGED endCause
  /\ UNCHANGED << gameVars, playerVars, apiVars, boardVars >>

Next ==
  \/ \E text \in NameInputs : EnterName(text)
  \/ \E kind \in { "interrupt", "eof" } : NamePromptRaises(kind)
  \/ LoopTop
  \/ \E text \in ChoiceInputs : MenuSelect(text)
  \/ \E text \in ChoiceInputs : MenuShuffle(text)
  \/ \E text \in ChoiceInputs : MenuReset(text)
  \/ \E text \in ChoiceInputs : MenuQuit(text)
  \/ \E text \in ChoiceInputs : MenuInvalid(text)
  \/ \E text \in ConfirmInputs : Confirm(text)
  \/ \E text \in CategoryInputs : EnterCategory(text)
  \/ \E text \in PointsInputs : EnterPoints(text)
  \/ \E text \in AnswerInputs(question) : EnterAnswer(text)
  \/ PromptInterrupt
  \/ PromptError

Spec == Init /\ [][Next]_vars

(***************************************************************************)
(* A session in which the player never quits, never interrupts and never   *)
(* confirms a reset, and keeps making valid selections                     *)
(***************************************************************************)
\* the name typed at line 324, or nothing but blanks
PlayNameInputs == NameInputs \cup { << " " >> }

\* choice '1' that leads to the category prompt (lines 350-351, 373-380)
ValidSelect == pc = "menu" /\ pc' = "category"

\* a category that still has questions: the points prompt follows (lines 380-391)
ValidCategory == pc = "category" /\ pc' = "points"

\* a point value that is offered: the question is shown (lines 393-401)
ValidPoints == pc = "points" /\ pc' = "answer"

\* lines 355-357 with an answer other than 'y'
Declined(text) ==
  /\ lower(strip(text)) # << "y" >>
  /\ Confirm(text)

\* The steps of start_game when the player never quits, never interrupts and
\* never confirms a reset.  Shuffling, which changes neither the score nor the
\* used set, is left to Next.
NextPlay ==
  \/ \E text \in PlayNameInputs : EnterName(text)
  \/ LoopTop
  \/ \E text \in ChoiceInputs : MenuSelect(text)
  \/ \E text \in ChoiceInputs : MenuReset(text)
  \/ \E text \in ChoiceInputs : MenuInvalid(text)
  \/ \E text \in ConfirmInputs : Declined(text)
  \/ \E text \in CategoryInputs : EnterCategory(text)
  \/ \E text \in PointsInputs : EnterPoints(text)
  \/ \E text \in AnswerInputs(question) : EnterAnswer(text)
  \/ PromptError

\* input() returns once the player has typed a line and the loop runs on by
\* itself, so no prompt waits for ever (weak fairness of the session's next
\* step).  The player keeps making valid selections: whenever the menu comes
\* up again and again, 'select' is chosen again and again, and likewise a
\* category with questions left and an offered point value.  This is strong
\* fairness of the three selection steps, each of which is possible exactly
\* when its prompt is shown.
FairPlay ==
  /\ WF_vars(NextPlay)
  /\ ([]<>(pc = "menu")) => []<><<ValidSelect>>_vars
  /\ ([]<>(pc = "category")) => []<><<ValidCategory>>_vars
  /\ ([]<>(pc = "points")) => []<><<ValidPoints>>_vars

SpecPlay == Init /\ [][NextPlay]_vars /\ FairPlay


(***************************************************************************)
(* The QuizGame methods called directly, in any order, on a fresh game     *)
(***************************************************************************)
Unknown == << "S", "c", "i", "e", "n", "s", "e" >>

CategoryArgs == Categories \cup { Unknown }

PointsArgs == { get_points(q) : q \in Questions } \cup { 999 }

InitApi ==
  /\ question_bank = InitialBank
  /\ score = 0
  /\ used_questions = {}
  /\ player = "None"
  /\ player_name = << >>
  /\ pc = "api"
  /\ category = << >>
  /\ question = None
  /\ inp = NoInput
  /\ message = ""
  /\ endCause = ""
  /\ credited = NoCredit
  /\ call = NoCall
  /\ ret = NoReturn
  /\ calls = 0
  /\ file = MissingFile
  /\ save_calls = << >>
  /\ displayed = FALSE
  /\ raised = ""

ApiDisplayQuestion(cat, points) ==
  /\ pc = "api"
  /\ calls < MaxCalls
  /\ calls' = calls + 1
  /\ call' = [NoCall EXCEPT !.op = "display_question", !.cat = cat, !.points = points]
  /\ ret' = IF display_question(cat, points) = None
            THEN NoReturn
            ELSE [NoReturn EXCEPT !.kind = "Question", !.q = display_question(cat, points)]
  /\ DisplayQuestion(cat, points)
  /\ UNCHANGED << sessionVars, playerVars, boardVars >>

ApiCheckAnswer(q, text) ==
  /\ pc = "api"
  /\ calls < MaxCalls
  /\ calls' = calls + 1
  /\ call' = [NoCall EXCEPT !.op = "check_answer", !.q = q, !.answer = text]
  /\ ret' = [NoReturn EXCEPT !.kind = "bool", !.ok = is_correct(q, text)]
  /\ check_answer(q, text)
  /\ UNCHANGED << sessionVars, playerVars, boardVars >>

ApiShuffle ==
  /\ pc = "api"
  /\ calls < MaxCalls
  /\ calls' = calls + 1
  /\ call' = [NoCall EXCEPT !.op = "shuffle_question_bank"]
  /\ ret' = NoReturn
  /\ shuffle_question_bank
  /\ UNCHANGED << sessionVars, playerVars, boardVars >>

ApiReset ==
  /\ pc = "api"
  /\ calls < MaxCalls
  /\ calls' = calls + 1
  /\ call' = [NoCall EXCEPT !.op = "reset_game"]
  /\ ret' = NoReturn
  /\ reset_game
  /\ UNCHANGED << sessionVars, playerVars, boardVars >>

NextApi ==
  \/ \E cat \in CategoryArgs, points \in PointsArgs : ApiDisplayQuestion(cat, points)
  \/ \E q \in Questions : \E text \in AnswerArgs(q) : ApiCheckAnswer(q, text)
  \/ ApiShuffle
  \/ ApiReset

SpecApi == InitApi /\ [][NextApi]_vars


(***************************************************************************)
(* Player and the leaderboard file                                         *)
(***************************************************************************)
\* Python's private name mangling: inside a class body an identifier with two
\* leading underscores (and not two trailing ones) names the attribute
\* _Class__identifier; any other identifier names itself.
Mangle(cls, ident) ==
  IF /\ Len(ident) > 2
     /\ ident[1] = "_" /\ ident[2] = "_"
     /\ ~(ident[Len(ident) - 1] = "_" /\ ident[Len(ident)] = "_")
  THEN << "_" >> \o cls \o ident
  ELSE ident

ClassPlayer == << "P", "l", "a", "y", "e", "r" >>

\* the attributes Player.__init__ creates (lines 70-71)
PlayerAttributes ==
  { Mangle(ClassPlayer, << "_", "_", "p", "l", "a", "y", "e", "r", "_", "n", "a", "m", "e" >>),
    Mangle(ClassPlayer, << "_", "_", "s", "a", "v", "e", "_", "f", "i", "l", "e" >>) }

\* the attribute line 92 reads: self._save_file
SaveFileAttributeRead ==
  Mangle(ClassPlayer, << "_", "s", "a", "v", "e", "_", "f", "i", "l", "e" >>)

RECURSIVE sorted_by_score(_)
\* sorted(highscores, key=score, reverse=True): stable, descending
sorted_by_score(s) ==
  IF s = << >> THEN << >>
  ELSE LET rest == sorted_by_score(SubSeq(s, 1, Len(s) - 1))
           x    == s[Len(s)]
           k    == Cardinality({ i \in 1..Len(rest) : rest[i].score >= x.score })
       IN  SubSeq(rest, 1, k) \o << x >> \o SubSeq(rest, k + 1, Len(rest))

\* list[:10]
FirstTen(s) == SubSeq(s, 1, IF Len(s) < TopN THEN Len(s) ELSE TopN)

\* json.load of the file, with the JSONDecodeError fallback
LoadedEntries == IF file.kind = "json" THEN file.entries ELSE << >>

\* Player.load_highscores: the parsed list, [] for an unparsable file, and
\* None (no return statement is reached) when the file does not exist.
load_highscores ==
  IF file.kind = "absent" THEN NoReturn
  ELSE [NoReturn EXCEPT !.kind = "list", !.list = LoadedEntries]

\* Player.save_score
save_score(s) ==
  /\ save_calls' = Append(save_calls, s)
  /\ IF SaveFileAttributeRead \notin PlayerAttributes
     THEN /\ raised' = "AttributeError"
          /\ file' = file
     ELSE /\ raised' = ""
          /\ file' = [kind |-> "json",
                      entries |-> FirstTen(sorted_by_score(
                          Append(LoadedEntries, [name |-> player_name, score |-> s])))]

Entry(n, s) == [name |-> << n >>, score |-> s]

EntryPool == { Entry(n, s) : n \in { "A", "B" }, s \in { 100, 300 } }

RECURSIVE SeqsUpTo(_, _)
SeqsUpTo(S, n) ==
  IF n = 0 THEN { << >> }
  ELSE SeqsUpTo(S, n - 1) \cup
       { Append(t, x) : t \in { u \in SeqsUpTo(S, n - 1) : Len(u) = n - 1 }, x \in S }

IsDescending(s) == \A i \in 1..(Len(s) - 1) : s[i].score >= s[i + 1].score

\* a leaderboard that is already full
FullBoard == [i \in 1..TopN |-> Entry("C", 100 * (TopN + 1 - i))]

InitialFiles ==
  { MissingFile, [kind |-> "corrupt", entries |-> << >>],
    [kind |-> "json", entries |-> FullBoard] }
    \cup { [kind |-> "json", entries |-> e] :
             e \in { t \in SeqsUpTo(EntryPool, MaxEntries) : IsDescending(t) } }

ScoreArgs == { 0, 200, 300, 1100 }

SetNameArgs == { << " ", "B", "o", "b", " " >>, << " " >>, << >> }

InitBoard ==
  /\ question_bank = InitialBank
  /\ score = 0
  /\ used_questions = {}
  /\ player = "Player"
  /\ player_name \in { Anonymous, << "A", "n", "n" >> }
  /\ pc = "player"
  /\ category = << >>
  /\ question = None
  /\ inp = NoInput
  /\ message = ""
  /\ endCause = ""
  /\ credited = NoCredit
  /\ call = NoCall
  /\ ret = NoReturn
  /\ calls = 0
  /\ file \in InitialFiles
  /\ save_calls = << >>
  /\ displayed = FALSE
  /\ raised = ""

PlayerCall(op) ==
  /\ pc = "player"
  /\ calls < MaxCalls
  /\ calls' = calls + 1
  /\ call' = [NoCall EXCEPT !.op = op]
  /\ UNCHANGED << gameVars, player, category, question, inp, endCause, pc >>

\* Player.set_name (lines 77-80)
SetName(new_name) ==
  /\ PlayerCall("set_name")
  /\ player_name' = IF new_name # << >> /\ strip(new_name) # << >>
                    THEN strip(new_name)
                    ELSE player_name
  /\ ret' = NoReturn
  /\ raised' = ""
  /\ UNCHANGED << message, file, save_calls, displayed >>

\* Player.set_score (lines 82-84) delegates to save_score
SetScore(s) ==
  /\ PlayerCall("set_score")
  /\ save_score(s)
  /\ ret' = NoReturn
  /\ UNCHANGED << player_name, message, displayed >>

\* Player.save_score called directly (lines 88-106)
SaveScore(s) ==
  /\ PlayerCall("save_score")
  /\ save_score(s)
  /\ ret' = NoReturn
  /\ UNCHANGED << player_name, message, displayed >>

\* Player.load_highscores (lines 108-115)
LoadHighscores ==
  /\ PlayerCall("load_highscores")
  /\ ret' = load_highscores
  /\ raised' = ""
  /\ UNCHANGED << player_name, message, file, save_calls, displayed >>

\* Player.display_highscores (lines 117-126)
DisplayHighscores ==
  /\ PlayerCall("display_highscores")
  /\ message' = IF load_highscores.list = << >>
                THEN "No high scores yet. Be the first to set one!"
                ELSE "=== HIGH SCORES ==="
  /\ displayed' = TRUE
  /\ ret' = NoReturn
  /\ raised' = ""
  /\ UNCHANGED << player_name, file, save_calls >>

NextBoard ==
  \/ \E n \in SetNameArgs : SetName(n)
  \/ \E s \in ScoreArgs : SetScore(s)
  \/ \E s \in ScoreArgs : SaveScore(s)
  \/ LoadHighscores
  \/ DisplayHighscores

SpecBoard == InitBoard /\ [][NextBoard]_vars


(***************************************************************************)
(* Properties                                                              *)
(***************************************************************************)
Science == CategoryNames[1]

CategoryOf(q) == CHOOSE cat \in DOMAIN question_bank : q \in Range(question_bank[cat])

RECURSIVE CreditedSum(_)
CreditedSum(qs) ==
  IF qs = {} THEN 0
  ELSE LET q == CHOOSE x \in qs : TRUE
       IN  credited[q] * get_points(q) + CreditedSum(qs \ {q})

\* C1: after any sequence of check_answer calls the score is the sum, over the
\* answers judged correct since the game was built or last reset, of the
\* points of the question answered; a check_answer call that judges the
\* answer incorrect leaves the score as it was.
C1_ScoreIsSumOfCorrect ==
  /\ [](score = CreditedSum(Questions))
  /\ [][(call'.op = "check_answer" /\ ~ret'.ok) => score' = score]_vars

C1_Witness ==
  /\ score = 300
  /\ credited[QId(1, 1)] = 1
  /\ credited[QId(1, 2)] = 1
  /\ call.op = "check_answer"
  /\ ~ret.ok

\* C2: no question is used initially; a question in the used set is never
\* what display_question returns, its points are not among
\* get_available_points of its category, and a category whose questions are
\* all used is not among get_available_categories.
C2_UsedNotOffered ==
  /\ used_questions = {}
  /\ [](/\ \A q \in used_questions :
             /\ \A cat \in CategoryArgs, p \in PointsArgs : display_question(cat, p) # q
             /\ get_points(q) \notin Range(get_available_points(CategoryOf(q)))
        /\ \A cat \in DOMAIN question_bank :
             Range(question_bank[cat]) \subseteq used_questions
               => cat \notin Range(get_available_categories))
  /\ [][(call'.op = "display_question" /\ ret'.kind = "Question")
          => ret'.q \notin used_questions]_vars

C2_Witness ==
  /\ Range(question_bank[Science]) \subseteq used_questions
  /\ call.op = "display_question"
  /\ call.cat = Science
  /\ call.points = 100
  /\ ret.kind = "None"

\* C3: when the session has ended by the quit choice or by completion,
\* save_score has been invoked with the final score and the leaderboard has
\* been displayed.
C3_SavedAndShownAtEnd ==
  (pc = "ended" /\ endCause \in { "quit", "complete" })
    => /\ save_calls # << >>
       /\ save_calls[Len(save_calls)] = score
       /\ displayed

ConfirmedReset ==
  pc = "confirm" /\ inp'.kind = "line" /\ lower(strip(inp'.text)) = << "y" >>

CorrectAnswer ==
  pc = "answer" /\ inp'.kind = "line" /\ is_correct(question, inp'.text)

\* C4 as stated: no step of a session lowers the score.
C4_ScoreNeverDecreases == [][score' >= score]_vars

\* C4 amended: a confirmed reset sets the score to 0; every other step either
\* leaves the score unchanged or is a correct answer, which adds the points of
\* the question answered.
C4_ScoreLoweredOnlyByReset ==
  [][IF ConfirmedReset THEN score' = 0
     ELSE \/ score' = score
          \/ CorrectAnswer /\ score' = score + get_points(question)]_vars

C4_Witness ==
  /\ pc = "loop"
  /\ message = "Correct!"
  /\ score = 300
  /\ question_bank # InitialBank

\* C5 as stated: a question in the used set stays in it in every later state.
C5_UsedNeverReversed == [][used_questions \subseteq used_questions']_vars

\* C5 amended: a confirmed reset empties the used set; no other step removes
\* a question from it, and the only step that adds one is the points prompt,
\* which adds exactly one question that was unused.
C5_UsedClearedOnlyByReset ==
  [][IF ConfirmedReset THEN used_questions' = {}
     ELSE \/ used_questions' = used_questions
          \/ /\ pc = "points"
             /\ \E q \in Questions \ used_questions :
                  used_questions' = used_questions \cup {q}]_vars

C5_Witness ==
  /\ pc = "loop"
  /\ message = "Question bank shuffled!"
  /\ question_bank # InitialBank
  /\ used_questions # {}
  /\ score = 0

\* C6: is_game_complete() is true exactly when every question of every
\* category is in the used set.
C6_CompleteIffAllUsed ==
  is_game_complete <=>
    \A cat \in DOMAIN question_bank :
      \A i \in 1..Len(question_bank[cat]) : question_bank[cat][i] \in used_questions

C6_Witness ==
  /\ pc = "ended"
  /\ endCause = "complete"
  /\ is_game_complete
  /\ question_bank # InitialBank

NoUnusedMatch(cat, points) ==
  \/ cat \notin Categories
  \/ ~\E q \in Questions \ used_questions :
        q \in Range(question_bank[cat]) /\ get_points(q) = points

\* C7: display_question with an unknown category, or with points for which
\* the category has no unused question, returns None and changes neither the
\* used set nor the score.
C7_MissChangesNothing ==
  [][(call'.op = "display_question" /\ NoUnusedMatch(call'.cat, call'.points))
       => /\ ret'.kind = "None"
          /\ used_questions' = used_questions
          /\ score' = score]_vars

C7_Witness ==
  /\ call.op = "display_question"
  /\ call.cat = Science
  /\ call.points = 999
  /\ ret.kind = "None"
  /\ used_questions # {}

MalformedChoice ==
  /\ pc = "menu"
  /\ strip(inp'.text) \notin { << "1" >>, << "2" >>, << "3" >>, << "4" >> }

MalformedCategory ==
  /\ pc = "category"
  /\ title(strip(inp'.text)) \notin Range(get_available_categories)

NonNumericPoints ==
  /\ pc = "points"
  /\ ~IsIntLiteral(inp'.text)

UnavailablePoints ==
  /\ pc = "points"
  /\ IsIntLiteral(inp'.text)
  /\ int(inp'.text) \notin Range(get_available_points(category))

Reported(text) ==
  /\ message' = text
  /\ used_questions' = used_questions
  /\ score' = score
  /\ pc' = "loop"
  /\ ~is_game_complete'

\* C8: a malformed line at the menu, category or points prompt is reported
\* with the message of its kind, leaves the used set and the score unchanged,
\* and sends the loop back to its top with the game still incomplete, so the
\* menu is shown again.
C8_MalformedInputRetries ==
  [][inp'.kind = "line" =>
       /\ MalformedChoice => Reported("Invalid choice. Please enter 1-4.")
       /\ MalformedCategory =>
            Reported("Invalid category or no questions remaining in that category!")
       /\ NonNumericPoints => Reported("Please enter a valid number for points!")
       /\ UnavailablePoints => Reported("Invalid point value!")]_vars

C8_Witness ==
  /\ pc = "loop"
  /\ message = "Please enter a valid number for points!"
  /\ inp = Line(<< "a", "b", "c" >>)
  /\ used_questions # {}
  /\ score > 0

QuitChosen == pc = "menu" /\ inp'.kind = "line" /\ strip(inp'.text) = << "4" >>

CompletionSeen == pc = "loop" /\ is_game_complete

\* C9 as stated: the loop ends only by the quit choice or by completion.
C9_EndsOnlyByQuitOrCompletion ==
  [][(pc' = "ended" /\ pc # "ended") => (QuitChosen \/ CompletionSeen)]_vars

\* C9 amended: the loop ends only by the quit choice, by completion, or by a
\* keyboard interrupt; a malformed line or any other exception raised by a
\* prompt leaves the loop running.
C9_EndsOnlyByQuitCompletionOrInterrupt ==
  [][(pc' = "ended" /\ pc # "ended")
       => (QuitChosen \/ CompletionSeen \/ (pc \in LoopPrompts /\ inp'.kind = "interrupt"))]_vars

C9_Witness ==
  /\ pc = "ended"
  /\ endCause = "interrupt"
  /\ inp.kind = "interrupt"
  /\ used_questions # {}

\* C10: a save_score call leaves in the file the previous entries plus the new
\* one, sorted by descending score and cut to the first ten.
C10_SaveKeepsSortedTopTen ==
  [][(call'.op \in { "save_score", "set_score" })
       => /\ file'.kind = "json"
          /\ file'.entries =
               FirstTen(sorted_by_score(
                 Append(LoadedEntries,
                        [name |-> player_name, score |-> save_calls'[Len(save_calls')]])))
          /\ Len(file'.entries) <= TopN]_vars


SaveOps == { "save_score", "set_score" }

LastSaved == [name |-> player_name, score |-> save_calls[Len(save_calls)]]

\* C11: load_highscores() right after save_score(s) by the player named n
\* returns a list that contains {name: n, score: s} and has at most ten
\* entries.
C11_SavedEntryIsLoaded ==
  [][(call.op \in SaveOps /\ call'.op = "load_highscores")
       => /\ ret'.kind = "list"
          /\ LastSaved \in Range(ret'.list)
          /\ Len(ret'.list) <= TopN]_vars

\* C12: load_highscores() returns an empty list when the file is missing or
\* unparsable, and save_score on an unparsable file leaves a file with exactly
\* one entry.
C12_BadFileIsEmptyBoard ==
  [][/\ (call'.op = "load_highscores" /\ file.kind \in { "absent", "corrupt" })
          => (ret'.kind = "list" /\ ret'.list = << >>)
     /\ (call'.op \in SaveOps /\ file.kind = "corrupt")
          => (file'.kind = "json" /\ Len(file'.entries) = 1)]_vars

\* C13: when an entry is saved whose score equals that of an entry already on
\* a board with room, the earlier entry comes before the new one in the file.
C13_TiesKeepInsertionOrder ==
  [][(/\ call'.op \in SaveOps
      /\ file.kind = "json"
      /\ Len(file.entries) < TopN
      /\ \E i \in 1..Len(file.entries) :
           file.entries[i].score = save_calls'[Len(save_calls')])
       => /\ file'.kind = "json"
          /\ \E i, j \in 1..Len(file'.entries) :
               /\ i < j
               /\ file'.entries[i] \in Range(file.entries)
               /\ file'.entries[i].score = save_calls'[Len(save_calls')]
               /\ file'.entries[j] = [name |-> player_name,
                                      score |-> save_calls'[Len(save_calls')]]]_vars

\* spellings of an answer that differ from it only in letter case or in
\* surrounding whitespace
Respellings(a) == { a, upper(a), lower(a), swapcase(a), Pad(a), Pad(upper(a)) }

\* C14: check_answer returns true exactly when the trimmed, lower-cased answer
\* equals the trimmed, lower-cased correct answer, and every respelling of the
\* answer in other letter case or with surrounding whitespace is judged the
\* same way.
C14_AnswerCaseAndSpaceInsensitive ==
  (call.op = "check_answer")
    => /\ ret.ok <=> (lower(strip(call.answer)) = lower(strip(get_correct_answer(call.q))))
       /\ \A v \in Respellings(call.answer) : is_correct(call.q, v) = ret.ok
       /\ \A v \in Respellings(get_correct_answer(call.q)) : is_correct(call.q, v)

C14_Witness ==
  /\ call.op = "check_answer"
  /\ call.answer = Pad(upper(get_correct_answer(call.q)))
  /\ call.answer # get_correct_answer(call.q)
  /\ ret.ok
  /\ score = get_points(call.q)


C16_ResetOnlyWhenConfirmed ==
  [][/\ (pc = "menu" /\ pc' = "confirm")
          => /\ strip(inp'.text) = << "3" >>
             /\ UNCHANGED gameVars
     /\ (pc' = "confirm") => (pc = "menu")
     /\ (pc = "confirm" /\ inp'.kind = "line")
          => /\ IF lower(strip(inp'.text)) = << "y" >>
                THEN /\ score' = 0
                     /\ used_questions' = {}
                     /\ question_bank' = question_bank
                ELSE UNCHANGED gameVars
             /\ pc' = "loop"
             /\ ~is_game_complete']_vars

C16_Witness ==
  /\ message = "Game reset! Score: 0, All questions available again."
  /\ pc = "loop"
  /\ inp = Line(<< " ", "Y", " " >>)
  /\ score = 0
  /\ used_questions = {}


\* C17: a shuffle_question_bank call leaves the score and the used set
\* unchanged, keeps the same categories, leaves in every category the same
\* questions (so each question keeps its category and its points) in some
\* order, and does not change what get_available_points and is_game_complete
\* return.
C17_ShuffleOnlyPermutes ==
  [][(call'.op = "shuffle_question_bank" /\ calls' = calls + 1)
       => /\ score' = score
          /\ used_questions' = used_questions
          /\ DOMAIN question_bank' = DOMAIN question_bank
          /\ \A cat \in DOMAIN question_bank :
               /\ Len(question_bank'[cat]) = Len(question_bank[cat])
               /\ Range(question_bank'[cat]) = Range(question_bank[cat])
               /\ available_points(question_bank', used_questions', cat) = get_available_points(cat)
          /\ is_game_complete' = is_game_complete]_vars

C17_Witness ==
  /\ call.op = "shuffle_question_bank"
  /\ question_bank # InitialBank
  /\ used_questions # {}
  /\ score > 0

\* C19: in every state of a session the score is at most the sum of the
\* points of the used questions, no question has been credited more than once
\* since the last reset, and every credited question is used.
C19_ScoreBoundedByUsed ==
  /\ score <= SumPoints(used_questions)
  /\ \A q \in Questions :
       /\ credited[q] <= 1
       /\ (credited[q] = 1) => (q \in used_questions)

C19_Witness ==
  /\ Cardinality(used_questions) >= 2
  /\ score > 0
  /\ score < SumPoints(used_questions)
  /\ \E q \in used_questions : credited[q] = 1
  /\ \E q \in used_questions : credited[q] = 0


\* C18: when every question is used, the next iteration of the loop ends the
\* session without reading another menu command; and in a session where the
\* player keeps making valid selections and never quits, interrupts or
\* resets, the session eventually ends by completion with every question
\* used.
C18_NaturalCompletion ==
  /\ [][(pc = "loop" /\ Questions \subseteq used_questions)
          => (pc' = "ended" /\ endCause' = "complete" /\ inp' = NoInput)]_vars
  /\ [](pc = "menu" => ~(Questions \subseteq used_questions))
  /\ <>(pc = "ended" /\ endCause = "complete" /\ used_questions = Questions)

C18_Witness ==
  /\ pc = "ended"
  /\ endCause = "complete"
  /\ used_questions = Questions
  /\ message = "Congratulations! You've completed all questions!"
  /\ inp = NoInput

=============================================================================
